---- MODULE Spec2Model ----
(***************************************************************************)
(* The marketplace application of src/app.py and src/forms.py: the four    *)
(* tables (User, Product, ShippingAddress, Order), the upload folder, and  *)
(* one action per request handler.                                         *)
(*                                                                         *)
(* Conventions                                                             *)
(*  - a table is the set of its rows, a row is a record with the columns   *)
(*    of the model class;                                                  *)
(*  - Python's None is the string "None";                                  *)
(*  - a price is an integer number of thousandths (0.01 is 10), so that    *)
(*    values between 0 and the form's minimum exist;                       *)
(*  - an image file name is a pair <<hex, ext>>; hex 0 is 'default.jpg';   *)
(*  - the flashed messages are named by ASCII tags, listed with the        *)
(*    handlers that flash them;                                            *)
(*  - Flask-Login keeps the logged-in user's id in the client's signed     *)
(*    session cookie, so a request carries the id of current_user (0 for   *)
(*    the anonymous user); every registered user can log in at any time.   *)
(***************************************************************************)
EXTENDS Integers, Sequences, FiniteSets, TLC

VARIABLES users, products, addresses, orders, files, pending, request, response

vars == <<users, products, addresses, orders, files, pending, request, response>>

\* everything persisted: the four tables and the upload folder
store == <<users, products, addresses, orders, files>>

\* ------------------------------------------------------------------ bounds
MaxProducts == 1
MaxAddresses == 1
MaxOrders == 2

\* ------------------------------------------------------- program constants
\* NumberRange(min=0.01), in thousandths
PriceMin == 10

None == "None"

\* hex 0 stands for the literal 'default.jpg'
DefaultImage == <<0, ".jpg">>

\* FileAllowed(['jpg', 'png', 'jpeg'])
FormImageExtensions == {".jpg", ".png", ".jpeg"}

ConditionChoices == {"new", "90pct", "80pct", "used_marks", "second_hand"}

\* 'mail' = 郵寄, 'courier' = 宅配, 'store_pickup' = 超商取貨
ShippingMethodChoices == {"mail", "courier", "store_pickup"}

\* ------------------------------------------------------------------ inputs
NoForm == [none |-> TRUE]

RegisterForms ==
    { [username |-> "u1", email |-> "e1", password |-> "pw", role |-> "seller"],
      [username |-> "u2", email |-> "e2", password |-> "pw", role |-> "buyer"],
      [username |-> "u3", email |-> "e3", password |-> "pw", role |-> None],
      [username |-> "u1", email |-> "e4", password |-> "pw", role |-> "admin"],
      [username |-> "u4", email |-> "e2", password |-> "pw", role |-> "buyer"],
      [username |-> None, email |-> "e5", password |-> "pw", role |-> "buyer"] }

LoginForms ==
    { [username |-> "u1", password |-> "pw"],
      [username |-> "u1", password |-> "bad"],
      [username |-> "u9", password |-> "pw"] }

ProductForms ==
    { [name |-> "lamp", description |-> "d", specifications |-> "",
       condition |-> "new", price |-> 100000, image |-> <<>>],
      [name |-> "lamp", description |-> "d", specifications |-> "s",
       condition |-> "used_marks", price |-> 250000, image |-> <<"photo", ".jpg">>],
      [name |-> "lamp", description |-> "d", specifications |-> "",
       condition |-> "new", price |-> 0, image |-> <<"photo", ".jpg">>],
      [name |-> "lamp", description |-> "d", specifications |-> "",
       condition |-> "new", price |-> -100000, image |-> <<>>],
      [name |-> "lamp", description |-> "d", specifications |-> "",
       condition |-> "new", price |-> 5, image |-> <<>>],
      [name |-> "", description |-> "d", specifications |-> "",
       condition |-> "broken", price |-> 250000, image |-> <<"anim", ".gif">>] }

ShippingAddressForms ==
    { [recipient_name |-> "r", phone_number |-> "09", address_line1 |-> "a1",
       address_line2 |-> "", city |-> "c", state |-> "s", zip_code |-> "100",
       country |-> "Taiwan"],
      [recipient_name |-> "", phone_number |-> "09", address_line1 |-> "a1",
       address_line2 |-> "", city |-> "c", state |-> "s", zip_code |-> "100",
       country |-> "Taiwan"] }

OrderForms == { [shipping_method |-> m] : m \in {"courier", "drone"} }

\* ----------------------------------------------------------------- helpers
Max(S) == CHOOSE x \in S : \A y \in S : y <= x

Ids(table) == { r.id : r \in table }

\* Model.query.get(id)
Get(table, id) == CHOOSE r \in table : r.id = id

\* INTEGER PRIMARY KEY of SQLite: one more than the largest id in the table
NextId(table) == IF table = {} THEN 1 ELSE Max(Ids(table)) + 1

\* current_user: the anonymous user is 0
is_authenticated(u) == u # 0

current_user(u) == Get(users, u)

Principals == {0} \cup Ids(users)

\* ------------------------------------------------------- request, response
\* the request in hand: request.endpoint, request.method, current_user and
\* request.view_args; the submitted form is an input of the action only. seq
\* alternates from one request to the next: a request repeated is another
\* request, also when it changes nothing else
Req(endpoint, method, u, product_id, address_id) ==
    [endpoint |-> endpoint, method |-> method, user |-> u,
     product_id |-> product_id, address_id |-> address_id,
     seq |-> 1 - request.seq]

\* the response: the status, the flashed message, the endpoint redirected to
\* or the template rendered, the url_for arguments, the form errors shown (or
\* the constraint named by an escaping exception), the orders listed, and the
\* user id login_user puts into the session (0: none)
Resp(status, flash, view, pid, aid) ==
    [status |-> status, flash |-> flash, view |-> view, args |-> <<pid, aid>>,
     errors |-> {}, orders |-> <<>>, login |-> 0]

Redirect(flash, view) == Resp(302, flash, view, 0, 0)

RedirectTo(flash, view, pid, aid) == Resp(302, flash, view, pid, aid)

Render(view) == Resp(200, "", view, 0, 0)

\* a form rendered again with the errors of its fields
RenderErrors(view, errors) == [Resp(200, "", view, 0, 0) EXCEPT !.errors = errors]

\* get_or_404
NotFound == Resp(404, "", "", 0, 0)

\* an IntegrityError escaping the handler: the transaction is rolled back
ServerError(constraint) == [Resp(500, "", "", 0, 0) EXCEPT !.errors = {constraint}]

\* @login_required for the anonymous user
LoginRequired == Redirect("please_log_in", "login")

\* ------------------------------------------------------------------- User
generate_password_hash(password) == <<"salted_hash", password>>

check_password_hash(hash, password) == hash = generate_password_hash(password)

\* request.form.get('role', 'buyer')
FormRole(form) == IF form.role = None THEN "buyer" ELSE form.role

\* the two queries of register: the flash of the first one that finds a row
RegisterCheck(form, table) ==
    IF \E x \in table : x.username = form.username THEN "username_exists"
    ELSE IF \E x \in table : x.email = form.email THEN "email_registered"
    ELSE "ok"

NewUser(form, table) ==
    [id |-> NextId(table), username |-> form.username, email |-> form.email,
     password_hash |-> generate_password_hash(form.password),
     role |-> FormRole(form)]

\* (variant) User.username and User.email declared without unique=True
UserConstraints_NoUnique(row, table) ==
    IF row.username = None \/ row.email = None THEN "NOT NULL" ELSE "ok"

\* nullable=False and unique=True on username and email: the constraint an
\* INSERT of the row violates, "ok" when none
UserConstraints(row, table) ==
    IF row.username = None \/ row.email = None THEN "NOT NULL"
    ELSE IF \E x \in table : x.username = row.username \/ x.email = row.email
    THEN "UNIQUE"
    ELSE "ok"

\* db.session.add(new_user); db.session.commit()
RegisterCommit(form) ==
    IF UserConstraints(NewUser(form, users), users) = "ok"
    THEN /\ users' = users \cup {NewUser(form, users)}
         /\ response' = Redirect("account_created", "login")
    ELSE /\ users' = users
         /\ response' = ServerError(UserConstraints(NewUser(form, users), users))

\* register, the request handled without another request in between
register(u, method, form) ==
    /\ request' = Req("register", method, u, 0, 0)
    /\ UNCHANGED <<products, addresses, orders, files, pending>>
    /\ IF is_authenticated(u)
       THEN users' = users /\ response' = Redirect("", "home")
       ELSE IF method = "GET"
       THEN users' = users /\ response' = Render("register")
       ELSE IF RegisterCheck(form, users) # "ok"
       THEN users' = users /\ response' = Redirect(RegisterCheck(form, users), "register")
       ELSE RegisterCommit(form)

\* register up to its two queries; the request then waits to commit, and no
\* response is sent yet
register_begin(form) ==
    /\ request' = Req("register", "POST", 0, 0, 0)
    /\ form \notin pending
    /\ UNCHANGED <<users, products, addresses, orders, files>>
    /\ IF RegisterCheck(form, users) # "ok"
       THEN /\ pending' = pending
            /\ response' = Redirect(RegisterCheck(form, users), "register")
       ELSE /\ pending' = pending \cup {form}
            /\ response' = response

\* register from the construction of the new row to the commit
register_commit(form) ==
    /\ request' = Req("register", "POST", 0, 0, 0)
    /\ form \in pending
    /\ pending' = pending \ {form}
    /\ UNCHANGED <<products, addresses, orders, files>>
    /\ RegisterCommit(form)

login(u, method, form) ==
    /\ request' = Req("login", method, u, 0, 0)
    /\ UNCHANGED <<users, products, addresses, orders, files, pending>>
    /\ response' =
         IF is_authenticated(u) THEN Redirect("", "home")
         ELSE IF method = "GET" THEN Render("login")
         ELSE IF \E x \in users : /\ x.username = form.username
                                  /\ check_password_hash(x.password_hash, form.password)
         THEN LET x == CHOOSE x \in users : x.username = form.username
              IN [Redirect("login_successful", "home") EXCEPT !.login = x.id]
         ELSE [Render("login") EXCEPT !.flash = "login_unsuccessful"]

logout(u) ==
    /\ request' = Req("logout", "GET", u, 0, 0)
    /\ UNCHANGED <<users, products, addresses, orders, files, pending>>
    /\ response' = IF is_authenticated(u) THEN Redirect("logged_out", "home")
                   ELSE LoginRequired

\* ---------------------------------------------------------------- Product
\* ProductForm: DataRequired on name, description, condition and price (0.0 is
\* falsy), the choices of condition, NumberRange(min=0.01), FileAllowed
\* (variant) price validated by NumberRange(min=0) alone
ProductFormErrors_ZeroPrice(form) ==
    { e \in {"name", "description", "condition", "price", "image"} :
        \/ e = "name" /\ form.name = ""
        \/ e = "description" /\ form.description = ""
        \/ e = "condition" /\ form.condition \notin ConditionChoices
        \/ e = "price" /\ form.price < 0
        \/ e = "image" /\ form.image # <<>> /\ form.image[2] \notin FormImageExtensions }

ProductFormErrors(form) ==
    { e \in {"name", "description", "condition", "price", "image"} :
        \/ e = "name" /\ form.name = ""
        \/ e = "description" /\ form.description = ""
        \/ e = "condition" /\ form.condition \notin ConditionChoices
        \/ e = "price" /\ (form.price = 0 \/ form.price < PriceMin)
        \/ e = "image" /\ form.image # <<>> /\ form.image[2] \notin FormImageExtensions }

\* form.validate_on_submit()
ProductFormSubmitted(method, form) == method = "POST" /\ ProductFormErrors(form) = {}

\* render_template('create_product.html', form=form): the blank form on GET,
\* the submitted form with its errors on POST
RenderProductForm(method, form) ==
    IF method = "POST" THEN RenderErrors("create_product", ProductFormErrors(form))
    ELSE Render("create_product")

\* uuid.uuid4().hex: a name no file and no product has
\* (names are kept up to renaming: the least hex not in use)
FreshHex ==
    LET used == { f[1] : f \in files \cup { p.image_filename : p \in products } }
    IN CHOOSE n \in 1..(Cardinality(used) + 1) :
         n \notin used /\ \A m \in 1..(n - 1) : m \in used

\* save_picture: random hex + the extension of the uploaded file's name
save_picture(image_file) == <<FreshHex, image_file[2]>>

NewProduct(form, picture_file, seller_id) ==
    [id |-> NextId(products), name |-> form.name, description |-> form.description,
     specifications |-> form.specifications, condition |-> form.condition,
     price |-> form.price, image_filename |-> picture_file, seller_id |-> seller_id]

\* 'only_sellers_can_list' = 只有賣家才能上架商品, 'product_listed' = 商品已成功上架！
create_product(u, method, form) ==
    /\ request' = Req("create_product", method, u, 0, 0)
    /\ UNCHANGED <<users, addresses, orders, pending>>
    /\ IF ~is_authenticated(u)
       THEN UNCHANGED <<products, files>> /\ response' = LoginRequired
       ELSE IF current_user(u).role # "seller"
       THEN UNCHANGED <<products, files>>
            /\ response' = Redirect("only_sellers_can_list", "home")
       ELSE IF ProductFormSubmitted(method, form)
       THEN /\ NextId(products) <= MaxProducts
            /\ IF form.image # <<>>
               THEN /\ files' = files \cup {save_picture(form.image)}
                    /\ products' = products \cup
                         {NewProduct(form, save_picture(form.image), u)}
               ELSE /\ files' = files
                    /\ products' = products \cup {NewProduct(form, DefaultImage, u)}
            /\ response' = Redirect("product_listed", "home")
       ELSE UNCHANGED <<products, files>>
            /\ response' = RenderProductForm(method, form)

\* product.seller != current_user
IsSeller(user_id, product) == product.seller_id = user_id

\* the assignments of update_product to the row
UpdatedProduct(product, form, image_filename) ==
    [product EXCEPT !.name = form.name, !.description = form.description,
                    !.specifications = form.specifications,
                    !.condition = form.condition, !.price = form.price,
                    !.image_filename = image_filename]

\* 'not_your_product_edit' = 您無權編輯此商品, 'product_updated' = 您的商品已更新!
update_product(u, method, product_id, form) ==
    /\ request' = Req("update_product", method, u, product_id, 0)
    /\ UNCHANGED <<users, addresses, orders, pending>>
    /\ IF ~is_authenticated(u)
       THEN UNCHANGED <<products, files>> /\ response' = LoginRequired
       ELSE IF product_id \notin Ids(products)
       THEN UNCHANGED <<products, files>> /\ response' = NotFound
       ELSE LET product == Get(products, product_id) IN
            IF ~IsSeller(u, product)
            THEN UNCHANGED <<products, files>>
                 /\ response' = Redirect("not_your_product_edit", "home")
            ELSE IF ProductFormSubmitted(method, form)
            THEN /\ IF form.image # <<>>
                    THEN /\ files' = (IF product.image_filename # DefaultImage
                                      THEN files \ {product.image_filename}
                                      ELSE files) \cup {save_picture(form.image)}
                         /\ products' = (products \ {product}) \cup
                              {UpdatedProduct(product, form, save_picture(form.image))}
                    ELSE /\ files' = files
                         /\ products' = (products \ {product}) \cup
                              {UpdatedProduct(product, form, product.image_filename)}
                 /\ response' = Redirect("product_updated", "home")
            ELSE UNCHANGED <<products, files>>
                 /\ response' = RenderProductForm(method, form)

\* (variant) Order.product_id nullable: the commit succeeds and leaves the
\* orders of the product with product_id = NULL (written 0)
DeleteCommit_Nullable(product) ==
    /\ products' = products \ {product}
    /\ orders' = { IF o.product_id = product.id THEN [o EXCEPT !.product_id = 0] ELSE o :
                     o \in orders }
    /\ response' = Redirect("product_deleted", "home")

\* db.session.delete(product); db.session.commit(): the rows of Product.orders
\* get product_id = NULL, which nullable=False refuses; the commit then raises
DeleteCommit(product) ==
    IF \E o \in orders : o.product_id = product.id
    THEN /\ UNCHANGED <<products, orders>>
         /\ response' = ServerError("NOT NULL")
    ELSE /\ products' = products \ {product}
         /\ orders' = orders
         /\ response' = Redirect("product_deleted", "home")

\* (variant) the picture removed before the ownership check
delete_product_UnlinkFirst(u, product_id) ==
    /\ request' = Req("delete_product", "POST", u, product_id, 0)
    /\ UNCHANGED <<users, addresses, pending>>
    /\ IF ~is_authenticated(u)
       THEN UNCHANGED <<products, orders, files>> /\ response' = LoginRequired
       ELSE IF product_id \notin Ids(products)
       THEN UNCHANGED <<products, orders, files>> /\ response' = NotFound
       ELSE LET product == Get(products, product_id) IN
            /\ files' = IF product.image_filename # DefaultImage
                        THEN files \ {product.image_filename}
                        ELSE files
            /\ IF ~IsSeller(u, product)
               THEN UNCHANGED <<products, orders>>
                    /\ response' = Redirect("not_your_product_delete", "home")
               ELSE DeleteCommit(product)

\* 'not_your_product_delete' = 您無權刪除此商品, 'product_deleted' = 您的商品已成功刪除！
delete_product(u, product_id) ==
    /\ request' = Req("delete_product", "POST", u, product_id, 0)
    /\ UNCHANGED <<users, addresses, pending>>
    /\ IF ~is_authenticated(u)
       THEN UNCHANGED <<products, orders, files>> /\ response' = LoginRequired
       ELSE IF product_id \notin Ids(products)
       THEN UNCHANGED <<products, orders, files>> /\ response' = NotFound
       ELSE LET product == Get(products, product_id) IN
            IF ~IsSeller(u, product)
            THEN UNCHANGED <<products, orders, files>>
                 /\ response' = Redirect("not_your_product_delete", "home")
            ELSE /\ files' = IF product.image_filename # DefaultImage
                             THEN files \ {product.image_filename}
                             ELSE files
                 /\ DeleteCommit(product)

\* ------------------------------------------------------- the order workflow
\* current_user.role != 'buyer' or current_user.id == product.seller.id
MayPurchase(user, product) == ~(user.role # "buyer" \/ user.id = product.seller_id)

\* (variant) no ownership check of the address
OwnsAddress_Any(user, address) == TRUE

\* shipping_address.user_id != current_user.id
OwnsAddress(user, address) == ~(address.user_id # user.id)

\* 'no_permission_buy' = 您無權購買此商品
create_order(u, product_id) ==
    /\ request' = Req("create_order", "POST", u, product_id, 0)
    /\ UNCHANGED <<users, products, addresses, orders, files, pending>>
    /\ response' =
         IF ~is_authenticated(u) THEN LoginRequired
         ELSE IF product_id \notin Ids(products) THEN NotFound
         ELSE IF ~MayPurchase(current_user(u), Get(products, product_id))
         THEN Redirect("no_permission_buy", "home")
         ELSE RedirectTo("", "shipping_address", product_id, 0)

\* ShippingAddressForm: DataRequired on every field but address_line2
ShippingAddressFormErrors(form) ==
    { e \in {"recipient_name", "phone_number", "address_line1", "city", "state",
             "zip_code", "country"} : form[e] = "" }

NewAddress(form, user_id) ==
    [id |-> NextId(addresses), user_id |-> user_id,
     recipient_name |-> form.recipient_name, phone_number |-> form.phone_number,
     address_line1 |-> form.address_line1, address_line2 |-> form.address_line2,
     city |-> form.city, state |-> form.state, zip_code |-> form.zip_code,
     country |-> form.country]

\* 'address_saved' = 新收件地址已儲存！
shipping_address(u, method, product_id, form) ==
    /\ request' = Req("shipping_address", method, u, product_id, 0)
    /\ UNCHANGED <<users, products, orders, files, pending>>
    /\ IF ~is_authenticated(u)
       THEN addresses' = addresses /\ response' = LoginRequired
       ELSE IF product_id \notin Ids(products)
       THEN addresses' = addresses /\ response' = NotFound
       ELSE IF ~MayPurchase(current_user(u), Get(products, product_id))
       THEN addresses' = addresses /\ response' = Redirect("no_permission_buy", "home")
       ELSE IF method = "POST" /\ ShippingAddressFormErrors(form) = {}
       THEN /\ Cardinality(addresses) < MaxAddresses
            /\ addresses' = addresses \cup {NewAddress(form, u)}
            /\ response' = RedirectTo("address_saved", "confirm_order",
                                      product_id, NextId(addresses))
       ELSE /\ addresses' = addresses
            /\ response' = IF method = "POST"
                           THEN RenderErrors("shipping_address",
                                             ShippingAddressFormErrors(form))
                           ELSE Render("shipping_address")

\* 'not_your_address' = 無權使用此收件地址
select_shipping_address(u, product_id, shipping_address_id) ==
    /\ request' = Req("select_shipping_address", "POST", u, product_id,
                      shipping_address_id)
    /\ UNCHANGED <<users, products, addresses, orders, files, pending>>
    /\ response' =
         IF ~is_authenticated(u) THEN LoginRequired
         ELSE IF product_id \notin Ids(products) THEN NotFound
         ELSE IF shipping_address_id \notin Ids(addresses) THEN NotFound
         ELSE IF ~MayPurchase(current_user(u), Get(products, product_id))
         THEN Redirect("no_permission_buy", "home")
         ELSE IF ~OwnsAddress(current_user(u), Get(addresses, shipping_address_id))
         THEN RedirectTo("not_your_address", "shipping_address", product_id, 0)
         ELSE RedirectTo("", "confirm_order", product_id, shipping_address_id)

\* OrderForm: DataRequired and the choices of shipping_method
OrderFormErrors(form) ==
    IF form.shipping_method \in ShippingMethodChoices THEN {} ELSE {"shipping_method"}

\* db.func.now(): timestamps are kept by their rank; the clock does not run
\* backwards, so a new reading is the latest order_date or the next rank
Now == LET latest == Max({0} \cup { o.order_date : o \in orders })
       IN {latest, latest + 1}

\* (variant) total_price taken from the wrong attribute
NewOrder_PriceFromId(product, user, address, form, now) ==
    [id |-> NextId(orders), product_id |-> product.id, buyer_id |-> user.id,
     order_date |-> now, status |-> "pending",
     shipping_method |-> form.shipping_method,
     shipping_address_id |-> address.id, total_price |-> product.id]

\* (variant) an order already placed with the same buyer, product, address
\* and shipping method is returned instead of a new row
NewOrder_Deduplicated(product, user, address, form, now) ==
    LET same == { o \in orders : /\ o.product_id = product.id
                                 /\ o.buyer_id = user.id
                                 /\ o.shipping_address_id = address.id
                                 /\ o.shipping_method = form.shipping_method }
    IN IF same # {} THEN CHOOSE o \in same : TRUE
       ELSE [id |-> NextId(orders), product_id |-> product.id, buyer_id |-> user.id,
             order_date |-> now, status |-> "pending",
             shipping_method |-> form.shipping_method,
             shipping_address_id |-> address.id, total_price |-> product.price]

NewOrder(product, user, address, form, now) ==
    [id |-> NextId(orders), product_id |-> product.id, buyer_id |-> user.id,
     order_date |-> now, status |-> "pending",
     shipping_method |-> form.shipping_method,
     shipping_address_id |-> address.id, total_price |-> product.price]

\* (variant) confirm_order relying on the checks of the earlier steps
ConfirmGuard_Trusting(user, product, address) == "ok"

\* the two guards of confirm_order, in the order of the code
ConfirmGuard(user, product, address) ==
    IF ~MayPurchase(user, product) THEN "no_permission_buy"
    ELSE IF ~OwnsAddress(user, address) THEN "not_your_address"
    ELSE "ok"

\* 'order_created' = 訂單已成功建立！
confirm_order(u, method, product_id, shipping_address_id, form) ==
    /\ request' = Req("confirm_order", method, u, product_id, shipping_address_id)
    /\ UNCHANGED <<users, products, addresses, files, pending>>
    /\ IF ~is_authenticated(u)
       THEN orders' = orders /\ response' = LoginRequired
       ELSE IF product_id \notin Ids(products) \/ shipping_address_id \notin Ids(addresses)
       THEN orders' = orders /\ response' = NotFound
       ELSE LET product == Get(products, product_id)
                address == Get(addresses, shipping_address_id)
                guard   == ConfirmGuard(current_user(u), product, address)
            IN IF guard = "no_permission_buy"
               THEN orders' = orders /\ response' = Redirect(guard, "home")
               ELSE IF guard = "not_your_address"
               THEN orders' = orders
                    /\ response' = RedirectTo(guard, "shipping_address", product_id, 0)
               ELSE IF method = "POST" /\ OrderFormErrors(form) = {}
               THEN /\ Cardinality(orders) < MaxOrders
                    /\ \E now \in Now :
                         orders' = orders \cup
                           {NewOrder(product, current_user(u), address, form, now)}
                    /\ response' = Redirect("order_created", "my_orders")
               ELSE /\ orders' = orders
                    /\ response' = IF method = "POST"
                                   THEN RenderErrors("confirm_order", OrderFormErrors(form))
                                   ELSE Render("confirm_order")

\* Order.query.filter_by(buyer_id=current_user.id)
filter_by_buyer(table, buyer_id) == { o \in table : o.buyer_id = buyer_id }

\* (variant) order_by(Order.order_date) without desc()
order_by_date_asc(rows) ==
    { s \in [1..Cardinality(rows) -> rows] :
        /\ \A i, j \in 1..Cardinality(rows) : i # j => s[i] # s[j]
        /\ \A i, j \in 1..Cardinality(rows) :
             i < j => s[i].order_date <= s[j].order_date }

\* .order_by(Order.order_date.desc()).all(): every listing of the rows the
\* database may return, rows with equal order_date in any order
order_by_date_desc(rows) ==
    { s \in [1..Cardinality(rows) -> rows] :
        /\ \A i, j \in 1..Cardinality(rows) : i # j => s[i] # s[j]
        /\ \A i, j \in 1..Cardinality(rows) :
             i < j => s[i].order_date >= s[j].order_date }

\* 'no_permission_view' = 您沒有權限查看此頁面
my_orders(u) ==
    /\ request' = Req("my_orders", "GET", u, 0, 0)
    /\ UNCHANGED <<users, products, addresses, orders, files, pending>>
    /\ IF ~is_authenticated(u) THEN response' = LoginRequired
       ELSE IF current_user(u).role # "buyer"
       THEN response' = Redirect("no_permission_view", "home")
       ELSE \E listing \in order_by_date_desc(filter_by_buyer(orders, u)) :
              response' = [Render("my_orders") EXCEPT !.orders = listing]

\* ---------------------------------------------------------- specifications
ProductIdInputs == 1..MaxProducts

AddressIdInputs == 1..MaxAddresses

\* a GET carries no form; a POST carries one of the forms
Submissions(forms) == {<<"GET", NoForm>>} \cup { <<"POST", f>> : f \in forms }

\* the application with an empty database and an empty upload folder
InitEmpty ==
    /\ users = {}
    /\ products = {}
    /\ addresses = {}
    /\ orders = {}
    /\ files = {}
    /\ pending = {}
    /\ request = [endpoint |-> "", method |-> "GET", user |-> 0, product_id |-> 0,
                  address_id |-> 0, seq |-> 0]
    /\ response = Render("")

\* the User table after u1 (seller), u2 (buyer) and u3 (no role submitted)
\* have registered, in this order
RegisteredUsers ==
    LET f1 == [username |-> "u1", email |-> "e1", password |-> "pw", role |-> "seller"]
        f2 == [username |-> "u2", email |-> "e2", password |-> "pw", role |-> "buyer"]
        f3 == [username |-> "u3", email |-> "e3", password |-> "pw", role |-> None]
        t1 == {NewUser(f1, {})}
        t2 == t1 \cup {NewUser(f2, t1)}
    IN t2 \cup {NewUser(f3, t2)}

InitRegistered ==
    /\ users = RegisteredUsers
    /\ products = {}
    /\ addresses = {}
    /\ orders = {}
    /\ files = {}
    /\ pending = {}
    /\ request = [endpoint |-> "", method |-> "GET", user |-> 0, product_id |-> 0,
                  address_id |-> 0, seq |-> 0]
    /\ response = Render("")

Identity ==
    \/ \E u \in Principals, s \in Submissions(RegisterForms) : register(u, s[1], s[2])
    \/ \E u \in Principals, s \in Submissions(LoginForms) : login(u, s[1], s[2])
    \/ \E u \in Principals : logout(u)

Catalog ==
    \/ \E u \in Principals, s \in Submissions(ProductForms) :
         create_product(u, s[1], s[2])
    \/ \E u \in Principals, p \in ProductIdInputs, s \in Submissions(ProductForms) :
         update_product(u, s[1], p, s[2])
    \/ \E u \in Principals, p \in ProductIdInputs : delete_product(u, p)

Workflow ==
    \/ \E u \in Principals, p \in ProductIdInputs : create_order(u, p)
    \/ \E u \in Principals, p \in ProductIdInputs,
          s \in Submissions(ShippingAddressForms) : shipping_address(u, s[1], p, s[2])
    \/ \E u \in Principals, p \in ProductIdInputs, a \in AddressIdInputs :
         select_shipping_address(u, p, a)
    \/ \E u \in Principals, p \in ProductIdInputs, a \in AddressIdInputs,
          s \in Submissions(OrderForms) : confirm_order(u, s[1], p, a, s[2])
    \/ \E u \in Principals : my_orders(u)

Next == Identity \/ Catalog \/ Workflow

Spec == InitRegistered /\ [][Next]_vars

\* registration with two requests in flight at once
NextRegister ==
    \/ \E f \in RegisterForms : register_begin(f)
    \/ \E f \in RegisterForms : register_commit(f)
    \/ \E u \in Principals, s \in Submissions(LoginForms) : login(u, s[1], s[2])
    \/ \E u \in Principals : logout(u)

SpecRegister == InitEmpty /\ [][NextRegister]_vars

\* ------------------------------------------------------------- properties
SellerOf(product_id) == { p.seller_id : p \in { q \in products : q.id = product_id } }

OwnerOf(address_id) == { a.user_id : a \in { b \in addresses : b.id = address_id } }

\* C1: no order is ever held by the seller of its product, and a confirm_order
\* request made by the seller of the product never adds an order.
C1_NoSelfPurchase ==
    /\ [](\A o \in orders : o.buyer_id \notin SellerOf(o.product_id))
    /\ [][(request'.endpoint = "confirm_order"
           /\ request'.user \in SellerOf(request'.product_id)) => orders' = orders]_vars

C1_SellerDenied ==
    /\ request.endpoint = "confirm_order"
    /\ request.user \in SellerOf(request.product_id)
    /\ request.address_id \in Ids(addresses)
    /\ response = Redirect("no_permission_buy", "home")
    /\ \E o \in orders : o.product_id = request.product_id

\* C2: the shipping address of every order belongs to the buyer of the order,
\* and a confirm_order request naming an address of another user never adds an
\* order, whatever request came before it.
C2_AddressOfBuyer ==
    /\ [](\A o \in orders : OwnerOf(o.shipping_address_id) = {o.buyer_id})
    /\ [][(request'.endpoint = "confirm_order"
           /\ OwnerOf(request'.address_id) # {}
           /\ request'.user \notin OwnerOf(request'.address_id)) => orders' = orders]_vars

C2_ForeignAddressDenied ==
    /\ request.endpoint = "confirm_order"
    /\ request.product_id \in Ids(products)
    /\ OwnerOf(request.address_id) # {}
    /\ request.user \notin OwnerOf(request.address_id)
    /\ \E x \in users : x.id = request.user /\ x.role = "buyer"
    /\ response.flash = "not_your_address"
    /\ \E o \in orders : o.shipping_address_id = request.address_id

\* the messages of the Guard: login required, role mismatch, not the seller of
\* the product, not allowed to purchase, not the owner of the address
DenyFlashes ==
    {"please_log_in", "only_sellers_can_list", "no_permission_view",
     "not_your_product_edit", "not_your_product_delete", "no_permission_buy",
     "not_your_address"}

\* C3: a request that the Guard denies leaves the users, products, shipping
\* addresses, orders and stored image files as they were.
C3_DenyChangesNothing ==
    [][response'.flash \in DenyFlashes => UNCHANGED store]_vars

C3_DeleteDenied ==
    /\ request.endpoint = "delete_product"
    /\ response.flash = "not_your_product_delete"
    /\ \E p \in products : /\ p.id = request.product_id
                           /\ p.image_filename # DefaultImage
                           /\ p.image_filename \in files

\* C4: an order enters the table with the price its product has at that
\* moment as total_price, and keeps that total_price in every later state.
C4_PriceSnapshot ==
    [][/\ \A o \in orders' \ orders :
            \E p \in products : p.id = o.product_id /\ o.total_price = p.price
       /\ \A o \in orders :
            \E k \in orders' : k.id = o.id /\ k.total_price = o.total_price]_vars

C4_PriceChangedAfterOrder ==
    /\ request.endpoint = "update_product"
    /\ response.flash = "product_updated"
    /\ \E o \in orders : \E p \in products :
         p.id = o.product_id /\ p.price # o.total_price

OrderCreated(req, resp) == req.endpoint = "confirm_order" /\ resp.flash = "order_created"

\* the same endpoint, method, user and view arguments
SameCall(req1, req2) == [req1 EXCEPT !.seq = 0] = [req2 EXCEPT !.seq = 0]

C6_PricePositive ==
    /\ [](\A p \in products : p.price > 0)
    /\ [][\A u \in Principals, f \in ProductForms :
            f.price <= 0 =>
              /\ create_product(u, "POST", f) => UNCHANGED <<products, files>>
              /\ \A p \in ProductIdInputs :
                   update_product(u, "POST", p, f)
                   => /\ UNCHANGED <<products, files>>
                      /\ response'.flash # "product_updated"]_vars

C6_UpdateRejected ==
    /\ request.endpoint = "update_product"
    /\ request.method = "POST"
    /\ request.user \in SellerOf(request.product_id)
    /\ response.errors = {"price"}

\* C7: every user has the role 'buyer' or the role 'seller'.
C7_RoleBuyerOrSeller == \A x \in users : x.role \in {"buyer", "seller"}

\* C8: no two users share a username or an email, and a user enters the table
\* only with a username and an email that no user has, also when two register
\* requests pass their checks before either commits; the users already there
\* stay as they are.
C8_UniqueIdentity ==
    /\ [](\A x, y \in users : x # y => x.username # y.username /\ x.email # y.email)
    /\ [][/\ users \subseteq users'
          /\ \A n \in users' \ users :
               \A x \in users : x.username # n.username /\ x.email # n.email]_vars

C8_RaceRejected ==
    /\ request.endpoint = "register"
    /\ response = ServerError("UNIQUE")
    /\ users # {}

\* C9: an order, once in the table, stays there with all its fields; every
\* order has the status 'pending'; only confirm_order adds an order.
C9_OrdersImmutable ==
    /\ [](\A o \in orders : o.status = "pending")
    /\ [][/\ orders \subseteq orders'
          /\ orders' # orders => request'.endpoint = "confirm_order"]_vars

C9_DeleteOfOrderedProduct ==
    /\ request.endpoint = "delete_product"
    /\ request.user \in SellerOf(request.product_id)
    /\ response.status = 500
    /\ \E o \in orders : o.product_id = request.product_id

\* C10: the page my_orders shows a buyer lists exactly the orders of that
\* buyer, each once, a later order_date before an earlier one.
C10_MyOrders ==
    (request.endpoint = "my_orders" /\ response.status = 200)
    => LET listing == response.orders
           mine == { o \in orders : o.buyer_id = request.user }
       IN /\ { listing[i] : i \in 1..Len(listing) } = mine
          /\ Len(listing) = Cardinality(mine)
          /\ \A i, j \in 1..Len(listing) :
               listing[i].order_date > listing[j].order_date => i < j

C10_TwoDates ==
    /\ request.endpoint = "my_orders"
    /\ response.status = 200
    /\ Len(response.orders) = 2
    /\ response.orders[1].order_date > response.orders[2].order_date

====
